---- MODULE Spec2Model ----
(***************************************************************************)
(* Compounder Dashboard (src/app.py): the Streamlit script as a state      *)
(* machine.  One script run is one action: a run started by the "Load      *)
(* Financials" button (Load) or a rerun started by a widget change         *)
(* (Select).  The session state, the cache of fetch_quickfs_data and what   *)
(* the run rendered are the state.                                          *)
(*                                                                          *)
(* Numbers.  Line items are integers.  A JSON null (Python None) and the    *)
(* pandas NaN it becomes inside a DataFrame are the one value NA; every     *)
(* arithmetic operator below propagates NA the way pandas/IEEE do.  The     *)
(* float ratios (ROIIC, Reinvestment Rate, Score) are exact rationals       *)
(* <<n, d>> in lowest terms with d > 0; the NaN ratio is <<NA, 1>>.         *)
(* A series that smart_get does not find (None) and an empty list are both  *)
(* <<>>: the code only ever tests a series for truthiness.                  *)
(***************************************************************************)
EXTENDS Integers, Sequences, FiniteSets, TLC

VARIABLES
    cache,        \* st.cache_data of fetch_quickfs_data: ticker -> <<>> or <<entry>>
    now,          \* the clock, in units of one cache expiry period
    data_loaded,  \* st.session_state.data_loaded
    raw_df,       \* st.session_state.raw_df: <<>> (None) or the annual rows
    ttm_df,       \* st.session_state.ttm_df: <<>> (None) or <<the TTM row>>
    meta,         \* st.session_state.meta: the company name, "" for {}
    last,         \* the load block of the most recent script run (its locals)
    view          \* what the most recent script run rendered below the divider

vars == <<cache, now, data_loaded, raw_df, ttm_df, meta, last, view>>

----------------------------------------------------------------------------
(* Values *)

\* None / NaN
NA == 0 - 1000000

\* index label of the TTM row; as a string it sorts after every year label
TTM == 9999

Abs(x) == IF x < 0 THEN 0 - x ELSE x

Min2(a, b) == IF a <= b THEN a ELSE b

Max2(a, b) == IF a >= b THEN a ELSE b

RECURSIVE Gcd(_, _)
Gcd(a, b) == IF b = 0 THEN a ELSE Gcd(b, a % b)

\* a - b on DataFrame cells
Sub(a, b) == IF a = NA \/ b = NA THEN NA ELSE a - b

\* a + b on DataFrame cells
Add(a, b) == IF a = NA \/ b = NA THEN NA ELSE a + b

NaNRatio == <<NA, 1>>

ZeroRatio == <<0, 1>>

IsNaN(r) == r[1] = NA

\* the float n / d (d # 0), in lowest terms
Ratio(n, d) ==
    LET g == Gcd(Abs(n), Abs(d))
        s == IF d < 0 THEN 0 - 1 ELSE 1
    IN  <<(s * n) \div g, (s * d) \div g>>

\* a / b of Python floats, b # 0
Div(a, b) == IF a = NA \/ b = NA THEN NaNRatio ELSE Ratio(a, b)

\* r * s of Python floats
Mul(r, s) == IF IsNaN(r) \/ IsNaN(s) THEN NaNRatio ELSE Ratio(r[1] * s[1], r[2] * s[2])

\* r < s, r <= s on floats: False when either side is NaN
Lt(r, s) == ~IsNaN(r) /\ ~IsNaN(s) /\ r[1] * s[2] < s[1] * r[2]

Le(r, s) == ~IsNaN(r) /\ ~IsNaN(s) /\ r[1] * s[2] <= s[1] * r[2]

\* arr[-n:] for n >= 1
LastN(arr, n) == IF n >= Len(arr) THEN arr ELSE SubSeq(arr, Len(arr) - n + 1, Len(arr))

\* sum() of a list without None
RECURSIVE SumSeq(_)
SumSeq(s) == IF s = <<>> THEN 0 ELSE s[1] + SumSeq(Tail(s))

HasNone(s) == \E i \in 1..Len(s) : s[i] = NA

----------------------------------------------------------------------------
(* HELPER FUNCTIONS *)

\* smart_get: the value of the first key of keys_to_try that is in data_dict
smart_get(data_dict, keys_to_try) ==
    LET hits == {i \in 1..Len(keys_to_try) : keys_to_try[i] \in DOMAIN data_dict}
    IN  IF hits = {} THEN <<>>
        ELSE data_dict[keys_to_try[CHOOSE i \in hits : \A j \in hits : i <= j]]

\* dict.get(key, default)
Get(data_dict, key, default) == IF key \in DOMAIN data_dict THEN data_dict[key] ELSE default

CfoKeys == <<"cf_cfo", "cfo", "cash_flow_operating">>

CapexKeys == <<"capex", "capital_expenditures">>

LiabKeys == <<"total_current_liabilities", "liabilities_current">>

CaKeys == <<"total_current_assets", "current_assets">>

PpeKeys == <<"ppe_net", "net_property_plant_and_equipment">>

GoodwillKeys == <<"goodwill">>

\* str(d).split('-')[0]: a date is year * 100 + month, a fiscal year is the year
YearLabel(d) == IF d >= 100 THEN d \div 100 ELSE d

\* slice_and_fill
slice_and_fill(arr, length) ==
    IF arr = <<>> THEN [i \in 1..length |-> 0]
    ELSE LET s == LastN(arr, length)
         IN  [i \in 1..Len(s) |-> IF s[i] # NA THEN s[i] ELSE 0]

MsgMissing == "Required annual metrics missing."

MsgLength == "All arrays must be of the same length"

MsgNoneType == "unsupported operand type(s) for +: 'int' and 'NoneType'"

Failure(msg) == [ok |-> FALSE, df |-> <<>>, ttm |-> <<>>, err |-> msg]

Row(label, ocf, capex, liab, ppe, gw, ca) ==
    [label |-> label, OCF |-> ocf, CapEx |-> capex, Liabilities |-> liab,
     PPE |-> ppe, Goodwill |-> gw, CA |-> ca]

\* the QUARTERLY / TTM block of process_financials: <<>> (df_ttm = None), <<row>>,
\* or "raise" when sum() meets a None
TtmBlock(quarterly) ==
    LET cfo_q == smart_get(quarterly, CfoKeys)
        capex_q == smart_get(quarterly, CapexKeys)
        liab_q == smart_get(quarterly, LiabKeys)
        ca_q == smart_get(quarterly, CaKeys)
        ppe_q == smart_get(quarterly, PpeKeys)
        goodwill_q == smart_get(quarterly, GoodwillKeys)
        last_(s) == s[Len(s)]
    IN  IF cfo_q # <<>> /\ Len(cfo_q) >= 4
        THEN IF HasNone(LastN(cfo_q, 4)) \/ (capex_q # <<>> /\ HasNone(LastN(capex_q, 4)))
             THEN [raise |-> TRUE, ttm |-> <<>>]
             ELSE [raise |-> FALSE,
                   ttm |-> <<Row(TTM,
                                 SumSeq(LastN(cfo_q, 4)),
                                 IF capex_q # <<>> THEN SumSeq(LastN(capex_q, 4)) ELSE 0,
                                 IF liab_q # <<>> THEN last_(liab_q) ELSE 0,
                                 IF ppe_q # <<>> /\ last_(ppe_q) # NA THEN last_(ppe_q) ELSE 0,
                                 IF goodwill_q # <<>> /\ last_(goodwill_q) # NA
                                     THEN last_(goodwill_q) ELSE 0,
                                 IF ca_q # <<>> THEN last_(ca_q) ELSE 0)>>]
        ELSE [raise |-> FALSE, ttm |-> <<>>]

\* process_financials: [ok, df, ttm, err]; ok = FALSE is the return (None, message)
process_financials(raw_data) ==
    LET annual == raw_data.financials.annual
        quarterly == raw_data.financials.quarterly
        cfo_a == smart_get(annual, CfoKeys)
        capex_a == smart_get(annual, CapexKeys)
        liab_a == smart_get(annual, LiabKeys)
        ca_a == smart_get(annual, CaKeys)
        ppe_a == smart_get(annual, PpeKeys)
        goodwill_a == smart_get(annual, GoodwillKeys)
        dates_a == Get(annual, "period_end_date", Get(annual, "fiscal_year", <<>>))
    IN  IF cfo_a = <<>> \/ dates_a = <<>> THEN Failure(MsgMissing)
        ELSE
        LET min_len == Min2(Len(cfo_a), Len(dates_a))
            ocf == LastN(cfo_a, min_len)
            capex == slice_and_fill(capex_a, min_len)
            liab_sliced == slice_and_fill(liab_a, min_len)
            ppe_sliced == slice_and_fill(ppe_a, min_len)
            gw_sliced == slice_and_fill(goodwill_a, min_len)
            ca_sliced == slice_and_fill(ca_a, min_len)
            index == LastN(dates_a, min_len)
            t == TtmBlock(quarterly)
        IN  \* pd.DataFrame raises ValueError unless every column has one length
            IF \E c \in {capex, liab_sliced, ppe_sliced, gw_sliced, ca_sliced} : Len(c) # min_len
            THEN Failure(MsgLength)
            ELSE IF t.raise THEN Failure(MsgNoneType)
            ELSE [ok |-> TRUE,
                  df |-> [i \in 1..min_len |->
                            Row(YearLabel(index[i]), ocf[i], capex[i], liab_sliced[i],
                                ppe_sliced[i], gw_sliced[i], ca_sliced[i])],
                  ttm |-> t.ttm,
                  err |-> ""]

\* fetch_quickfs_data on a cache miss: the provider's answer resp to requests.get;
\* [raw, error], error = "" for None
NoRaw == [financials |-> [annual |-> <<>>, quarterly |-> <<>>], metadata |-> ""]

fetch_quickfs_data(resp) ==
    IF resp.exc THEN [raw |-> NoRaw, error |-> "Connection aborted."]
    ELSE IF resp.status_code # 200 THEN [raw |-> NoRaw, error |-> "API Error: 404"]
    ELSE IF ~resp.has_data THEN [raw |-> NoRaw, error |-> "Invalid data received."]
    ELSE [raw |-> resp.data, error |-> ""]

----------------------------------------------------------------------------
(* APP LOGIC: the block under "if st.session_state.data_loaded" *)

available_years(df_main) == [i \in 1..Len(df_main) |-> df_main[i].label]

available_options(df_main, df_ttm) ==
    IF df_ttm # <<>> THEN Append(available_years(df_main), TTM) ELSE available_years(df_main)

DefaultSpan == 10

\* 0-based, as passed to st.selectbox
default_end_idx(df_main, df_ttm) == Len(available_options(df_main, df_ttm)) - 1

\* the span counted back from the last annual period, not the last option
default_start_idx_Years(df_main, df_ttm) ==
    Max2(0, Len(available_years(df_main)) - 1 - DefaultSpan)

default_start_idx(df_main, df_ttm) == Max2(0, default_end_idx(df_main, df_ttm) - DefaultSpan)

IsValidEnd(opt, start_period) == opt = TTM \/ opt >= start_period

valid_end_options(df_main, df_ttm, start_period) ==
    SelectSeq(available_options(df_main, df_ttm), LAMBDA opt : IsValidEnd(opt, start_period))

\* position of a label in a unique index
Pos(df, label) == CHOOSE i \in 1..Len(df) : df[i].label = label

\* a slice that stops before its end label, as a positional slice would
Loc_Open(df, a, b) == SubSeq(df, Pos(df, a), Pos(df, b) - 1)

\* df.loc[a : b], both ends included
Loc(df, a, b) == SubSeq(df, Pos(df, a), Pos(df, b))

\* FILTERING
Filter(df_main, df_ttm, start_period, end_period) ==
    IF end_period = TTM /\ df_ttm # <<>>
    THEN LET df_combined == df_main \o df_ttm
         IN  SubSeq(df_combined, Pos(df_combined, start_period), Len(df_combined))
    ELSE Loc(df_main, start_period, end_period)

\* FCF without .abs()
FCF_Signed(ocf, capex) == IF ocf = NA \/ capex = NA THEN NA ELSE ocf - capex

\* df_slice['OCF'] - df_slice['CapEx'].abs(), one cell
FCF(ocf, capex) == IF ocf = NA \/ capex = NA THEN NA ELSE ocf - Abs(capex)

\* (Current Assets - Liabilities) + PPE + Goodwill, one cell
IC(ca, liab, ppe, gw) == Add(Add(Sub(ca, liab), ppe), gw)

WithDerived(r) ==
    [label |-> r.label, OCF |-> r.OCF, CapEx |-> r.CapEx, Liabilities |-> r.Liabilities,
     PPE |-> r.PPE, Goodwill |-> r.Goodwill, CA |-> r.CA,
     FCF |-> FCF(r.OCF, r.CapEx), IC |-> IC(r.CA, r.Liabilities, r.PPE, r.Goodwill)]

\* Series.sum(): NaN cells are skipped (skipna=True)
RECURSIVE SumFCF(_)
SumFCF(rows) ==
    IF rows = <<>> THEN 0
    ELSE (IF rows[1].FCF = NA THEN 0 ELSE rows[1].FCF) + SumFCF(Tail(rows))

MinPeriods == 2

\* B1 / A2 if A2 != 0 else 0
Roiic(B1, A2) == IF A2 # 0 THEN Div(B1, A2) ELSE ZeroRatio

\* A2 / A1 if A1 != 0 else 0
Reinvest(A2, A1) == IF A1 # 0 THEN Div(A2, A1) ELSE ZeroRatio

\* Verdict Styling with 0.80 < reinvest
Verdict_Strict(reinvest) ==
    IF Lt(reinvest, <<1, 5>>) THEN "Cash Cow"
    ELSE IF Lt(<<4, 5>>, reinvest) /\ Le(reinvest, <<1, 1>>) THEN "Aggressive Compounder"
    ELSE IF Lt(<<1, 1>>, reinvest) THEN "External Funding (>100%)"
    ELSE "Moderate Reinvestment"

\* Verdict Styling
Verdict(reinvest) ==
    IF Lt(reinvest, <<1, 5>>) THEN "Cash Cow"
    ELSE IF Le(<<4, 5>>, reinvest) /\ Le(reinvest, <<1, 1>>) THEN "Aggressive Compounder"
    ELSE IF Lt(<<1, 1>>, reinvest) THEN "External Funding (>100%)"
    ELSE "Moderate Reinvestment"

\* CALCULATIONS on a slice of at least MinPeriods rows
Calculations(rows) ==
    LET A1 == SumFCF(rows)
        B1 == Sub(rows[Len(rows)].FCF, rows[1].FCF)
        A2 == Sub(rows[Len(rows)].IC, rows[1].IC)
        roiic == Roiic(B1, A2)
        reinvest == Reinvest(A2, A1)
    IN  [A1 |-> A1, B1 |-> B1, A2 |-> A2, roiic |-> roiic, reinvest |-> reinvest,
         score |-> Mul(roiic, reinvest), label |-> Verdict(reinvest)]

\* len(df_slice) >= 1
HasEnough_One(df_slice) == Len(df_slice) >= 1

HasEnough(df_slice) == Len(df_slice) >= MinPeriods

NoView == [kind |-> "none", start |-> 0, end |-> 0, rows |-> <<>>, m |-> <<>>]

\* what one run renders for the selection (start_period, end_period)
Render(df_main, df_ttm, start_period, end_period) ==
    LET df_slice == Filter(df_main, df_ttm, start_period, end_period)
    IN  IF HasEnough(df_slice)
        THEN LET rows == [i \in 1..Len(df_slice) |-> WithDerived(df_slice[i])]
             IN  [kind |-> "metrics", start |-> start_period, end |-> end_period,
                  rows |-> rows, m |-> <<Calculations(rows)>>]
        ELSE [kind |-> "warning", start |-> start_period, end |-> end_period,
              rows |-> df_slice, m |-> <<>>]

Range(s) == {s[i] : i \in 1..Len(s)}

----------------------------------------------------------------------------
(* What the provider can answer.  A raw document is                         *)
(* [financials |-> [annual |-> dict, quarterly |-> dict], metadata |-> name]; *)
(* a dict maps the field names that are present to their series, oldest     *)
(* entry first.                                                             *)

MaxYears == 3

RatioYears == 2

SessionYears == 2

MaxQuarters == 5

MaxVal == 3

MaxStep == 4

CapexMag == 2

MaxPeriods == 13

\* the dict of the fields of rec whose series is not empty
Dict(rec) == [k \in {f \in DOMAIN rec : rec[f] # <<>>} |-> rec[k]]

\* base, base + step, ... (len entries)
Ser(base, step, len) == [i \in 1..len |-> base + step * (i - 1)]

\* s with a null at position p (p = 0: no null)
WithNull(s, p) == [i \in 1..Len(s) |-> IF i = p THEN NA ELSE s[i]]

\* fiscal years 1..n, each ending in December
Dates(n) == [i \in 1..n |-> i * 100 + 12]

Annual(cfo, capex, liab, ca, ppe, gw, dates) ==
    Dict([cf_cfo |-> cfo, capex |-> capex, total_current_liabilities |-> liab,
          total_current_assets |-> ca, ppe_net |-> ppe, goodwill |-> gw,
          period_end_date |-> dates])

Quarterly(cfo, capex, liab, ca, ppe, gw, dates) ==
    Dict([cf_cfo |-> cfo, capex |-> capex, total_current_liabilities |-> liab,
          total_current_assets |-> ca, ppe_net |-> ppe, goodwill |-> gw,
          period_end_date |-> dates])

NoQuarterly == Quarterly(<<>>, <<>>, <<>>, <<>>, <<>>, <<>>, <<>>)

Raw(annual, quarterly, name) ==
    [financials |-> [annual |-> annual, quarterly |-> quarterly], metadata |-> name]

Ok(data) == [exc |-> FALSE, status_code |-> 200, has_data |-> TRUE, data |-> data]

\* the answers that make fetch_quickfs_data return an error
FetchErrors ==
    {[exc |-> TRUE, status_code |-> 200, has_data |-> FALSE, data |-> NoRaw],
     [exc |-> FALSE, status_code |-> 404, has_data |-> FALSE, data |-> NoRaw],
     [exc |-> FALSE, status_code |-> 200, has_data |-> FALSE, data |-> NoRaw]}

\* four quarters after fiscal year n: flows 1, -1; stocks as given
QuarterlyOf(n, kind) ==
    IF kind = "none" THEN NoQuarterly
    ELSE LET stock(v) == <<0, 0, 0, IF kind = "null" THEN NA ELSE v>>
         IN  Quarterly(<<1, 1, 1, 2>>, <<0, 0, 0, 0 - 1>>, stock(1), stock(n + 3),
                       stock(2), stock(1), <<n * 100 + 3, n * 100 + 6, n * 100 + 9, (n + 1) * 100 + 3>>)

\* Ratio inputs: aligned annual series of n years with varied values, a null
\* OCF at position np, and a TTM row that is absent, complete or has null stocks
RatioData(name) ==
    {Raw(Annual(WithNull(Ser(o0, os, n), np), Ser(c, 0, n), Ser(k, k, n),
                Ser(0, ca, n), Ser(2 * k, 2 * k, n), Ser(3 * k, 3 * k, n), Dates(n)),
         QuarterlyOf(n, q), name) :
       n \in 1..RatioYears, o0 \in 0..MaxVal, os \in {0, 1}, np \in {0, 1},
       c \in {0 - CapexMag, 0, CapexMag}, ca \in 0..MaxStep, k \in {0, 1},
       q \in {"none", "full", "null"}}

\* the quarter end before d
PrevQ(d) == IF d % 100 > 3 THEN d - 3 ELSE (d \div 100 - 1) * 100 + 12

\* len quarter end dates, the latest being d
RECURSIVE QDates(_, _)
QDates(len, d) == IF len = 0 THEN <<>> ELSE Append(QDates(len - 1, PrevQ(d)), d)

\* a stock series of len quarters: absent, ending in v, or ending in a null
Stock(kind, v, len) ==
    IF kind = "absent" THEN <<>>
    ELSE WithNull(Ser(v - len + 1, 1, len), IF kind = "null" THEN len ELSE 0)

\* two annual years with OCF under the name ko (and, if second, also under the
\* last alias with other values), CapEx under kx and the periods under kd
AliasAnnual(ko, second, kx, kd) ==
    [k \in {ko, kx, kd, "total_current_liabilities", "total_current_assets"}
            \cup (IF second THEN {"cash_flow_operating"} ELSE {}) |->
        IF k = ko THEN Ser(11, 1, 2)
        ELSE IF k = "cash_flow_operating" THEN Ser(91, 1, 2)
        ELSE IF k = kx THEN Ser(0 - 21, 0 - 1, 2)
        ELSE IF k = kd THEN (IF kd = "fiscal_year" THEN Ser(1, 1, 2) ELSE Dates(2))
        ELSE IF k = "total_current_liabilities" THEN Ser(31, 1, 2)
        ELSE Ser(41, 1, 2)]

\* Shape inputs, values coded by concept and position.
\* (a) annual series of every combination of lengths (0: the field is absent),
\*     no quarterly data;
\* (b) two aligned annual years ending 2-12 and quarterly data of every shape:
\*     lengths, nulls in the last entry, stocks absent / present / null, and
\*     the latest quarter dated before, on or after the last annual period;
\* (c) two aligned annual years that report total_assets, with or without the
\*     three components of invested capital;
\* (d) two aligned annual years whose OCF, CapEx and period fields go by each
\*     of their names, in lower case or not, alone or beside a later alias
NormData(name) ==
    {Raw(Annual(Ser(11, 1, lo), Ser(0 - 21, 0 - 1, lx), Ser(31, 1, ll), Ser(41, 1, la),
                Ser(51, 1, lpg), Ser(61, 1, lpg), Dates(ld)),
         NoQuarterly, name) :
       lo \in 0..MaxYears, ld \in 0..MaxYears, lx \in 0..MaxYears, ll \in 0..MaxYears,
       la \in 0..MaxYears, lpg \in {0, MaxYears}}
    \cup
    {Raw(Annual(Ser(11, 1, 2), Ser(0 - 21, 0 - 1, 2), Ser(31, 1, 2), Ser(41, 1, 2),
                Ser(51, 1, 2), Ser(61, 1, 2), Dates(2)),
         Quarterly(WithNull(Ser(1, 1, lq), IF nq THEN lq ELSE 0),
                   WithNull(Ser(0 - 1, 0 - 1, lxq), IF nxq THEN lxq ELSE 0),
                   Stock(st, 35, lq), Stock(st, 45, lq), Stock(st, 55, lq), Stock(st, 65, lq),
                   IF qd = 0 THEN <<>> ELSE QDates(lq, qd)),
         name) :
       lq \in 0..MaxQuarters, nq \in BOOLEAN, lxq \in 0..MaxQuarters, nxq \in BOOLEAN,
       st \in {"absent", "value", "null"}, qd \in {0, 209, 212, 303}}
    \cup
    {Raw(Dict([cf_cfo |-> Ser(11, 1, 2), capex |-> Ser(0 - 21, 0 - 1, 2),
               total_current_liabilities |-> Ser(31, 1, 2),
               total_assets |-> Ser(71, 5, 2),
               total_current_assets |-> IF parts THEN Ser(41, 1, 2) ELSE <<>>,
               ppe_net |-> IF parts THEN Ser(51, 1, 2) ELSE <<>>,
               goodwill |-> IF parts THEN Ser(61, 1, 2) ELSE <<>>,
               period_end_date |-> Dates(2)]),
         NoQuarterly, name) :
       parts \in BOOLEAN}
    \cup
    {Raw(AliasAnnual(ko, second, kx, kd), NoQuarterly, name) :
       ko \in {"cf_cfo", "cfo", "cash_flow_operating", "CF_CFO"}, second \in BOOLEAN,
       kx \in {"capex", "capital_expenditures", "CapEx"},
       kd \in {"period_end_date", "fiscal_year"}}

\* Long histories: 1..MaxPeriods aligned annual years, with or without the
\* quarters of a TTM row
DefaultData(name) ==
    {Raw(Annual(Ser(1, 1, n), Ser(0 - 1, 0, n), Ser(1, 0, n), Ser(2, 1, n),
                <<>>, <<>>, Dates(n)),
         QuarterlyOf(n, q), name) :
       n \in 1..MaxPeriods, q \in {"none", "full"}}

\* Session inputs: a few documents per company, good and bad
SessionData(name) ==
    {Raw(Annual(Ser(1, 1, n), Ser(0 - 1, 0, n), Ser(1, 0, n), Ser(2, 1, n),
                <<>>, <<>>, Dates(n)),
         QuarterlyOf(n, q), name) :
       n \in {1, SessionYears}, q \in {"none", "full"}}
    \cup
    {Raw(Annual(<<>>, <<>>, <<>>, Ser(2, 1, 2), <<>>, <<>>, Dates(2)), NoQuarterly, name),
     Raw(Annual(Ser(1, 1, 2), <<0 - 1>>, <<>>, Ser(2, 1, 2), <<>>, <<>>, Dates(2)),
         NoQuarterly, name)}

----------------------------------------------------------------------------
(* The script, one run per action *)

NoResult == [ok |-> FALSE, df |-> <<>>, ttm |-> <<>>, err |-> ""]

\* a run whose load block did not execute
NoLoad == [load |-> FALSE, ticker |-> "", network |-> FALSE, raw |-> NoRaw,
           error |-> "", result |-> NoResult, shown |-> "", fresh |-> FALSE]

\* the selections the two selectboxes offer for the stored frames
Selections(df_main, df_ttm) ==
    {<<s, e>> \in Range(available_years(df_main)) \X Range(available_options(df_main, df_ttm)) :
        IsValidEnd(e, s)}

\* what the two selectboxes show when they are created: index=default_start_idx
\* and index=end_idx
DefaultSelection(df_main, df_ttm) ==
    LET start_period == available_years(df_main)[default_start_idx(df_main, df_ttm) + 1]
        ends == valid_end_options(df_main, df_ttm, start_period)
    IN  <<start_period, ends[Len(ends)]>>

\* a selectbox keeps the user's choice from the previous run only if that run
\* rendered it with the same options and the same index= argument
KeptStart(df_main, df_ttm) ==
    /\ view.kind # "none"
    /\ available_years(df_main) = available_years(raw_df)
    /\ default_start_idx(df_main, df_ttm) = default_start_idx(raw_df, ttm_df)

KeptEnd(df_main, df_ttm) == KeptStart(df_main, df_ttm) /\ (df_ttm = <<>>) = (ttm_df = <<>>)

\* the selections a run of the load block can end with
LoadSelections(df_main, df_ttm) ==
    {sel \in Selections(df_main, df_ttm) :
        /\ KeptStart(df_main, df_ttm) \/ sel[1] = DefaultSelection(df_main, df_ttm)[1]
        /\ \/ KeptEnd(df_main, df_ttm)
           \/ LET ends == valid_end_options(df_main, df_ttm, sel[1])
              IN  sel[2] = ends[Len(ends)]}

\* the stored frame as if df_slice were df_main's own rows: the two new
\* columns land in the stored rows of the window
Stored_Alias(df_main, v) ==
    IF v.kind = "metrics" /\ v.end # TTM
    THEN [i \in 1..Len(df_main) |->
            IF \E j \in 1..Len(v.rows) : v.rows[j].label = df_main[i].label
            THEN WithDerived(df_main[i]) ELSE df_main[i]]
    ELSE df_main

\* st.session_state.raw_df after the run rendered v: df_slice is a .copy(),
\* the columns FCF and IC are added to the copy only
Stored(df_main, v) == df_main

\* the part of a run below the load block, the selectboxes showing one of sels
RenderRun(loaded, df_main, df_ttm, sels) ==
    IF loaded
    THEN \E sel \in sels :
            /\ view' = Render(df_main, df_ttm, sel[1], sel[2])
            /\ raw_df' = Stored(df_main, view')
    ELSE /\ view' = NoView
         /\ raw_df' = df_main

\* "if error:" with data_loaded left as it was
FetchFailed_Keep(ticker, fetched, network) ==
    /\ UNCHANGED <<data_loaded, ttm_df, meta>>
    /\ last' = [load |-> TRUE, ticker |-> ticker, network |-> network,
                raw |-> fetched.raw, error |-> fetched.error,
                result |-> NoResult, shown |-> fetched.error, fresh |-> FALSE]
    /\ RenderRun(data_loaded, raw_df, ttm_df, LoadSelections(raw_df, ttm_df))

\* "if error:" of the load block and the rest of that run
FetchFailed(ticker, fetched, network) ==
    /\ data_loaded' = FALSE
    /\ UNCHANGED <<ttm_df, meta>>
    /\ last' = [load |-> TRUE, ticker |-> ticker, network |-> network,
                raw |-> fetched.raw, error |-> fetched.error,
                result |-> NoResult, shown |-> fetched.error, fresh |-> FALSE]
    /\ RenderRun(FALSE, raw_df, ttm_df, {})

\* the load block, given what fetch_quickfs_data returned
LoadBlock(ticker, fetched, network) ==
    IF fetched.error # ""
    THEN FetchFailed(ticker, fetched, network)
    ELSE LET result == process_financials(fetched.raw)
             df_main == IF result.ok THEN result.df ELSE raw_df
             df_ttm == IF result.ok THEN result.ttm ELSE ttm_df
             loaded == result.ok \/ data_loaded
         IN  /\ last' = [load |-> TRUE, ticker |-> ticker, network |-> network,
                         raw |-> fetched.raw, error |-> "",
                         result |-> result, shown |-> result.err,
                         fresh |-> loaded /\ ~KeptStart(df_main, df_ttm)]
             /\ IF result.ok
                THEN /\ ttm_df' = result.ttm
                     /\ meta' = fetched.raw.metadata
                     /\ data_loaded' = TRUE
                ELSE UNCHANGED <<data_loaded, ttm_df, meta>>
             /\ RenderRun(loaded, df_main, df_ttm, LoadSelections(df_main, df_ttm))

\* "Load Financials" pressed with a ticker; Answers is what the provider may
\* answer.  The decorator has no ttl: an entry, once stored, answers every
\* later call with the same ticker.  "at" records when the entry was stored.
Load(ticker, Answers) ==
    /\ UNCHANGED now
    /\ \/ /\ cache[ticker] = <<>>
          /\ \E resp \in Answers :
               LET fetched == fetch_quickfs_data(resp)
               IN  /\ cache' = [cache EXCEPT ![ticker] = <<[value |-> fetched, at |-> now]>>]
                   /\ LoadBlock(ticker, fetched, TRUE)
       \/ /\ cache[ticker] # <<>>
          /\ UNCHANGED cache
          /\ LoadBlock(ticker, cache[ticker][1].value, FALSE)

\* a rerun caused by one of the two selectboxes
Select ==
    /\ data_loaded
    /\ last' = NoLoad
    /\ RenderRun(TRUE, raw_df, ttm_df, Selections(raw_df, ttm_df))
    /\ UNCHANGED <<cache, now, data_loaded, ttm_df, meta>>

\* a rerun while nothing is loaded (the ticker box edited)
Rerun ==
    /\ ~data_loaded
    /\ last' = NoLoad
    /\ RenderRun(FALSE, raw_df, ttm_df, {})
    /\ UNCHANGED <<cache, now, data_loaded, ttm_df, meta>>

MaxTime == 1

\* one expiry period passes with no script run
Tick ==
    /\ now < MaxTime
    /\ now' = now + 1
    /\ UNCHANGED <<cache, data_loaded, raw_df, ttm_df, meta, last, view>>

Tickers == {"APG:US", "MSFT:US"}

Init ==
    /\ cache = [t \in Tickers |-> <<>>]
    /\ now = 0
    /\ data_loaded = FALSE
    /\ raw_df = <<>>
    /\ ttm_df = <<>>
    /\ meta = ""
    /\ last = NoLoad
    /\ view = NoView

\* one company, the ratio inputs
LoadRatio == Load("APG:US", {Ok(d) : d \in RatioData("APG")} \cup FetchErrors)

NextRatio == LoadRatio \/ Select \/ Rerun

SpecRatio == Init /\ [][NextRatio]_vars

\* one company, the shape inputs
LoadNorm == Load("APG:US", {Ok(d) : d \in NormData("APG")})

NextNorm == LoadNorm \/ Select

SpecNorm == Init /\ [][NextNorm]_vars

\* one company, the long histories
LoadDefault == Load("APG:US", {Ok(d) : d \in DefaultData("APG")})

NextDefault == LoadDefault \/ Select

SpecDefault == Init /\ [][NextDefault]_vars

\* the session: any company, loaded any number of times
LoadAny == \E t \in Tickers : Load(t, {Ok(d) : d \in SessionData(t)} \cup FetchErrors)

Next == LoadAny \/ Select \/ Rerun \/ Tick

Spec == Init /\ [][Next]_vars

----------------------------------------------------------------------------
(* Properties.  The window of a rendered view is restated here from the     *)
(* session state: the rows of the stored frames (annual rows, then the TTM  *)
(* row) whose label lies between the selected start and end.                *)

Frame == raw_df \o ttm_df

WinIdx == {i \in 1..Len(Frame) : view.start <= Frame[i].label /\ Frame[i].label <= view.end}

WinFirst == CHOOSE i \in WinIdx : \A j \in WinIdx : i <= j

WinLast == CHOOSE i \in WinIdx : \A j \in WinIdx : i >= j

\* FCF and IC of a stored row as arithmetic defines them: undefined (NA) when
\* an operand is
CellFCF(i) ==
    IF Frame[i].OCF = NA \/ Frame[i].CapEx = NA THEN NA
    ELSE Frame[i].OCF - Max2(Frame[i].CapEx, 0 - Frame[i].CapEx)

CellIC(i) ==
    IF NA \in {Frame[i].CA, Frame[i].Liabilities, Frame[i].PPE, Frame[i].Goodwill} THEN NA
    ELSE Frame[i].CA - Frame[i].Liabilities + Frame[i].PPE + Frame[i].Goodwill

RECURSIVE SumCells(_)
SumCells(S) ==
    IF S = {} THEN 0
    ELSE LET i == CHOOSE j \in S : TRUE IN CellFCF(i) + SumCells(S \ {i})

\* the sum of the FCF of every period of S: undefined when one of them is
SumAll(S) == IF \E i \in S : CellFCF(i) = NA THEN NA ELSE SumCells(S)

Diff(a, b) == IF a = NA \/ b = NA THEN NA ELSE a - b

\* x / y as a fraction in lowest terms, compared by cross-multiplication
SameRatio(r, x, y) == r[1] # NA /\ r[2] > 0 /\ r[1] * y = x * r[2]

Complete == \A i \in WinIdx : CellFCF(i) # NA /\ CellIC(i) # NA

\* C1: for every window of at least 2 periods, A1 is the sum of FCF over all
\* periods of the window, B1 = FCF[last] - FCF[first], A2 = IC[last] - IC[first]
\* and Score = ROIIC * Reinvestment Rate, FCF and IC being the derived values
\* of exactly the rows in the window.
C1_WindowFormulas ==
    view.kind = "metrics" =>
        LET m == view.m[1]
        IN  /\ Cardinality(WinIdx) >= 2
            /\ m.A1 = SumAll(WinIdx)
            /\ m.B1 = Diff(CellFCF(WinLast), CellFCF(WinFirst))
            /\ m.A2 = Diff(CellIC(WinLast), CellIC(WinFirst))
            /\ m.score = Mul(m.roiic, m.reinvest)

\* C1, the part the code keeps: on a window whose every FCF and IC is defined
\* the four formulas hold, and B1, A2 and Score hold on every window.
C1_OnCompleteWindows ==
    view.kind = "metrics" =>
        LET m == view.m[1]
        IN  /\ Complete => m.A1 = SumAll(WinIdx)
            /\ m.B1 = Diff(CellFCF(WinLast), CellFCF(WinFirst))
            /\ m.A2 = Diff(CellIC(WinLast), CellIC(WinFirst))
            /\ m.score = Mul(m.roiic, m.reinvest)
            /\ (Complete /\ m.A2 # 0) => SameRatio(m.roiic, m.B1, m.A2)
            /\ (Complete /\ m.A1 # 0) => SameRatio(m.reinvest, m.A2, m.A1)

\* C2: for every window of at least 2 periods, A2 = 0 gives ROIIC = 0 and
\* A1 = 0 gives Reinvestment Rate = 0, nothing is raised, and the Score is
\* then 0.
C2_DegenerateRatios ==
    view.kind = "metrics" =>
        LET m == view.m[1]
        IN  /\ m.A2 = 0 => m.roiic = <<0, 1>>
            /\ m.A1 = 0 => m.reinvest = <<0, 1>>
            /\ (m.A2 = 0 \/ m.A1 = 0) => m.score = <<0, 1>>

\* C2, the part the code keeps: the two ratios are 0 in the degenerate cases,
\* and the Score is 0 there unless the other ratio is NaN.
C2_OnDefinedRatios ==
    view.kind = "metrics" =>
        LET m == view.m[1]
        IN  /\ m.A2 = 0 => m.roiic = <<0, 1>>
            /\ m.A1 = 0 => m.reinvest = <<0, 1>>
            /\ ((m.A2 = 0 \/ m.A1 = 0) /\ m.roiic[1] # NA /\ m.reinvest[1] # NA)
                    => m.score = <<0, 1>>

\* C3: a selected window of fewer than 2 periods yields the insufficient-data
\* outcome and no metric at all: no A1, B1, A2, ROIIC, Reinvestment Rate,
\* Score or label, and no FCF or IC column.
C3_WindowMinimum ==
    view.kind # "none" =>
        /\ Cardinality(WinIdx) < 2 <=> view.kind = "warning"
        /\ Cardinality(WinIdx) < 2 =>
              /\ view.m = <<>>
              /\ \A i \in 1..Len(view.rows) : DOMAIN view.rows[i] \cap {"FCF", "IC"} = {}

C3_Witness == view.kind = "warning" /\ Cardinality(WinIdx) = 1 /\ Len(raw_df) >= 2

\* C4: the label is a function of the Reinvestment Rate C2 alone and exactly
\* one applies: Cash Cow when C2 < 0.20, Moderate Reinvestment when
\* 0.20 <= C2 < 0.80, Aggressive Compounder when 0.80 <= C2 <= 1.00, External
\* Funding when C2 > 1.00.  (A NaN rate is in no bin; it is given the label of
\* the else branch.)
C4_Classification ==
    view.kind = "metrics" =>
        LET m == view.m[1]
            n == m.reinvest[1]
            d == m.reinvest[2]
        IN  IF n = NA THEN m.label = "Moderate Reinvestment"
            ELSE /\ d > 0
                 /\ 5 * n < d => m.label = "Cash Cow"
                 /\ (5 * n >= d /\ 5 * n < 4 * d) => m.label = "Moderate Reinvestment"
                 /\ (5 * n >= 4 * d /\ n <= d) => m.label = "Aggressive Compounder"
                 /\ n > d => m.label = "External Funding (>100%)"

C4_Witness ==
    /\ view.kind = "metrics"
    /\ view.m[1].reinvest = <<4, 5>>
    /\ view.m[1].label = "Aggressive Compounder"

\* C5: FCF is OCF minus the absolute value of CapEx: for every OCF and CapEx
\* value c the FCF computed with CapEx = c equals the FCF computed with
\* CapEx = -c, and FCF never exceeds OCF.
C5_CapexSign ==
    view.kind = "metrics" =>
        \A i \in 1..Len(view.rows) :
            LET r == view.rows[i]
            IN  /\ r.CapEx # NA
                /\ r.FCF = FCF(r.OCF, 0 - r.CapEx)
                /\ (r.OCF = NA) <=> (r.FCF = NA)
                /\ r.OCF # NA =>
                      /\ r.FCF = r.OCF - Max2(r.CapEx, 0 - r.CapEx)
                      /\ r.FCF <= r.OCF

C5_Witness ==
    /\ view.kind = "metrics"
    /\ \E i, j \in 1..Len(view.rows) :
          /\ view.rows[i].CapEx < 0 /\ view.rows[i].OCF # NA
          /\ view.rows[j].CapEx > 0 /\ view.rows[j].OCF # NA
          /\ view.rows[j].FCF < view.rows[j].OCF

----------------------------------------------------------------------------
(* Properties of process_financials, read off the load block of the run:    *)
(* last.raw is the document it was given, last.result what it returned.     *)

\* the run called process_financials
Normalized == last.load /\ last.error = ""

InAnnual(field) == Get(last.raw.financials.annual, field, <<>>)

InQuarterly(field) == Get(last.raw.financials.quarterly, field, <<>>)

AnnualFields ==
    {"cf_cfo", "capex", "total_current_liabilities", "total_current_assets", "ppe_net",
     "goodwill", "period_end_date"}

MinLenAll == CHOOSE n \in {Len(InAnnual(f)) : f \in AnnualFields} :
                \A f \in AnnualFields : n <= Len(InAnnual(f))

\* entry i of the most recent n entries of s
Recent(s, n, i) == s[Len(s) - n + i]

\* C6: for per-concept annual series of differing lengths (OCF, CapEx,
\* liabilities, current assets, PPE, goodwill and the period list)
\* normalization succeeds, the aligned series has the minimum length over all
\* of them, and its rows are the most recent min_len entries of each input,
\* oldest first.  (Stated for documents with all seven series and no
\* quarterly data.)
C6_AlignAllInputs ==
    (/\ Normalized
     /\ last.raw.financials.quarterly = <<>>
     /\ \A f \in AnnualFields : InAnnual(f) # <<>>) =>
        LET n == MinLenAll
            df == last.result.df
        IN  /\ last.result.ok
            /\ Len(df) = n
            /\ \A i \in 1..Len(df) :
                  /\ df[i].OCF = Recent(InAnnual("cf_cfo"), n, i)
                  /\ df[i].CapEx = Recent(InAnnual("capex"), n, i)
                  /\ df[i].Liabilities = Recent(InAnnual("total_current_liabilities"), n, i)
                  /\ df[i].CA = Recent(InAnnual("total_current_assets"), n, i)
                  /\ df[i].PPE = Recent(InAnnual("ppe_net"), n, i)
                  /\ df[i].Goodwill = Recent(InAnnual("goodwill"), n, i)
                  /\ df[i].label = Recent(InAnnual("period_end_date"), n, i) \div 100

\* C6, what the code keeps: the length is the minimum of the OCF series and
\* the period list only, and a present series shorter than that is an error.
C6_AlignOcfAndDates ==
    (Normalized /\ InAnnual("cf_cfo") # <<>> /\ InAnnual("period_end_date") # <<>>
        /\ last.raw.financials.quarterly = <<>>) =>
        LET n == Min2(Len(InAnnual("cf_cfo")), Len(InAnnual("period_end_date")))
            short == \E f \in AnnualFields : InAnnual(f) # <<>> /\ Len(InAnnual(f)) < n
        IN  /\ last.result.ok <=> ~short
            /\ last.result.ok => Len(last.result.df) = n
            /\ short => last.result.err = MsgLength

\* C7: a TTM row is made available only if the effective date of the latest
\* quarter is strictly later than the date of the last annual period;
\* otherwise no TTM row exists and the series is the annual series unchanged.
C7_TtmOnlyIfNewer ==
    (/\ Normalized
     /\ last.result.ok
     /\ InQuarterly("period_end_date") # <<>>) =>
        LET qd == InQuarterly("period_end_date")
            ad == InAnnual("period_end_date")
        IN  /\ ttm_df = last.result.ttm
            /\ ttm_df # <<>> => qd[Len(qd)] > ad[Len(ad)]

\* C8: in a synthesized TTM row each flow quantity (OCF, CapEx) is the sum of
\* exactly the four most recent quarterly values of that concept and each
\* stock quantity (current liabilities, current assets, net PPE, goodwill) is
\* the value of the single most recent quarter.  (Stated for the concepts the
\* quarterly data holds, and for stocks whose latest value is not null.)
C8_TtmFlowsAndStocks ==
    (Normalized /\ last.result.ok /\ last.result.ttm # <<>>) =>
        LET t == last.result.ttm[1]
            four(s) == s[Len(s)] + s[Len(s) - 1] + s[Len(s) - 2] + s[Len(s) - 3]
            flow(f, v) == InQuarterly(f) # <<>> =>
                             Len(InQuarterly(f)) >= 4 /\ v = four(InQuarterly(f))
            stock(f, v) == (InQuarterly(f) # <<>> /\ InQuarterly(f)[Len(InQuarterly(f))] # NA)
                             => v = InQuarterly(f)[Len(InQuarterly(f))]
        IN  /\ flow("cf_cfo", t.OCF)
            /\ flow("capex", t.CapEx)
            /\ stock("total_current_liabilities", t.Liabilities)
            /\ stock("total_current_assets", t.CA)
            /\ stock("ppe_net", t.PPE)
            /\ stock("goodwill", t.Goodwill)

\* C8, what the code keeps: OCF is the sum of the four latest quarters, CapEx
\* the sum of the latest four or fewer, the stocks the latest quarter's value.
C8_TtmUpToFour ==
    (Normalized /\ last.result.ok /\ last.result.ttm # <<>>) =>
        LET t == last.result.ttm[1]
            cq == InQuarterly("cf_cfo")
            xq == InQuarterly("capex")
        IN  /\ Len(cq) >= 4
            /\ t.OCF = cq[Len(cq)] + cq[Len(cq) - 1] + cq[Len(cq) - 2] + cq[Len(cq) - 3]
            /\ t.CapEx = SumSeq(LastN(xq, 4))
            /\ t.label = TTM

\* C9: TTM synthesis is never a hard requirement: whenever the annual data
\* alone normalizes, process_financials returns the annual series whatever the
\* quarterly data holds, and with no quarterly data or fewer than 4 quarterly
\* records the TTM row is absent and nothing fails.
C9_TtmNeverRequired ==
    Normalized =>
        LET alone == process_financials(Raw(last.raw.financials.annual, NoQuarterly,
                                            last.raw.metadata))
        IN  alone.ok =>
              /\ last.result.ok
              /\ last.result.df = alone.df
              /\ Len(InQuarterly("cf_cfo")) < 4 => last.result.ttm = <<>>

\* C10: normalization fails with the missing-required-field outcome if and
\* only if a required concept has no alias in the annual data, the required
\* concepts being operating cash flow and the asset side of Invested Capital.
\* (Stated for documents that have a period list.)
C10_MissingRequired ==
    (Normalized /\ InAnnual("period_end_date") # <<>>) =>
        LET a == last.raw.financials.annual
            no_ocf == \A i \in 1..Len(CfoKeys) : CfoKeys[i] \notin DOMAIN a
            no_assets == DOMAIN a \cap {"total_assets", "total_current_assets", "current_assets",
                                        "ppe_net", "net_property_plant_and_equipment",
                                        "goodwill"} = {}
        IN  (~last.result.ok /\ last.result.err = MsgMissing) <=> (no_ocf \/ no_assets)

\* C10, what the code keeps: the outcome is raised exactly when the operating
\* cash flow or the period list is missing or empty, whatever the assets.
C10_MissingOcfOrDates ==
    Normalized =>
        ((~last.result.ok /\ last.result.err = MsgMissing)
            <=> \/ \A i \in 1..Len(CfoKeys) : InAnnual(CfoKeys[i]) = <<>>
                \/ InAnnual("period_end_date") = <<>> /\ InAnnual("fiscal_year") = <<>>)

----------------------------------------------------------------------------
(* Invested capital and field names *)

\* every series of the annual dict has one entry per stored annual row
AlignedAnnual ==
    \A f \in DOMAIN last.raw.financials.annual :
        Len(last.raw.financials.annual[f]) = Len(last.result.df)

\* entry p of an annual field, 0 if the field is absent
FieldAt(field, p) == IF InAnnual(field) = <<>> THEN 0 ELSE InAnnual(field)[p]

\* C11 (refuted): the invested capital of every annual row of a rendered
\* window is (current assets - current liabilities) + PPE + goodwill when the
\* document has the three components, and total assets - current liabilities
\* when it has none of them but reports total assets.
C11_TwoIcStrategies ==
    (Normalized /\ last.result.ok /\ AlignedAnnual /\ view.kind = "metrics") =>
        \A i \in 1..Len(view.rows) :
            LET r == view.rows[i]
                p == Pos(last.result.df, r.label)
                liab == FieldAt("total_current_liabilities", p)
                parts == {"total_current_assets", "ppe_net", "goodwill"}
            IN  r.label # TTM =>
                  /\ (\A f \in parts : InAnnual(f) # <<>>) =>
                        r.IC = (FieldAt("total_current_assets", p) - liab)
                               + FieldAt("ppe_net", p) + FieldAt("goodwill", p)
                  /\ ((\A f \in parts : InAnnual(f) = <<>>) /\ InAnnual("total_assets") # <<>>) =>
                        r.IC = FieldAt("total_assets", p) - liab

\* C11, what the code keeps: invested capital is always the decomposed form,
\* an absent component counting 0, and total_assets is never read.
C11_DecomposedOnly ==
    (Normalized /\ last.result.ok /\ AlignedAnnual /\ view.kind = "metrics") =>
        /\ \A i \in 1..Len(view.rows) :
             LET r == view.rows[i]
                 p == Pos(last.result.df, r.label)
             IN  r.label # TTM =>
                   r.IC = (FieldAt("total_current_assets", p)
                           - FieldAt("total_current_liabilities", p))
                          + FieldAt("ppe_net", p) + FieldAt("goodwill", p)
        /\ LET a == last.raw.financials.annual
               without == [k \in DOMAIN a \ {"total_assets"} |-> a[k]]
           IN  process_financials(Raw(without, last.raw.financials.quarterly,
                                      last.raw.metadata)) = last.result

\* str.lower() on the field names the inputs use
LowerCase(k) ==
    IF k = "CF_CFO" THEN "cf_cfo" ELSE IF k = "CapEx" THEN "capex" ELSE k

\* the series a concept resolves to when names are compared ignoring case:
\* that of the first alias some field name equals in lower case, <<>> if none
ResolveAnyCase(d, keys) ==
    LET hits == {i \in 1..Len(keys) : \E k \in DOMAIN d : LowerCase(k) = keys[i]}
    IN  IF hits = {} THEN <<>>
        ELSE LET first == CHOOSE i \in hits : \A j \in hits : i <= j
             IN  d[CHOOSE k \in DOMAIN d : LowerCase(k) = keys[first]]

\* the column of the stored annual rows
Column(df, col) == [i \in 1..Len(df) |-> df[i][col]]

\* C12 (refuted): a concept is bound to the first alias of its list that is
\* present, field names compared case-insensitively, and counts as absent only
\* when no alias is present: with a period list, normalization reports the
\* missing OCF exactly when no field name matches an OCF alias in any case, and
\* the OCF and CapEx columns are the series so resolved.
C12_AliasAnyCase ==
    LET a == last.raw.financials.annual
        dates_a == Get(a, "period_end_date", Get(a, "fiscal_year", <<>>))
        cfo == ResolveAnyCase(a, CfoKeys)
        capex == ResolveAnyCase(a, CapexKeys)
    IN  (Normalized /\ dates_a # <<>> /\ last.raw.financials.quarterly = <<>>) =>
          /\ (last.result.err = MsgMissing) <=> (cfo = <<>>)
          /\ (last.result.ok /\ AlignedAnnual) =>
                /\ Column(last.result.df, "OCF") = cfo
                /\ Column(last.result.df, "CapEx")
                     = (IF capex = <<>> THEN [i \in 1..Len(cfo) |-> 0] ELSE capex)

\* C12, what the code keeps: the first alias, in list order, that is a field
\* name letter for letter binds the concept; a name in another case is no match.
C12_AliasExactCase ==
    LET a == last.raw.financials.annual
        dates_a == Get(a, "period_end_date", Get(a, "fiscal_year", <<>>))
        FirstAt(keys, i) == keys[i] \in DOMAIN a /\ \A j \in 1..(i - 1) : keys[j] \notin DOMAIN a
    IN  (Normalized /\ dates_a # <<>> /\ last.raw.financials.quarterly = <<>>) =>
          /\ (last.result.err = MsgMissing) <=> (\A i \in 1..Len(CfoKeys) : CfoKeys[i] \notin DOMAIN a)
          /\ (last.result.ok /\ AlignedAnnual) =>
                /\ \A i \in 1..Len(CfoKeys) :
                      FirstAt(CfoKeys, i) => Column(last.result.df, "OCF") = a[CfoKeys[i]]
                /\ \A i \in 1..Len(CapexKeys) :
                      FirstAt(CapexKeys, i) => Column(last.result.df, "CapEx") = a[CapexKeys[i]]
                /\ (\A i \in 1..Len(CapexKeys) : CapexKeys[i] \notin DOMAIN a) =>
                      Column(last.result.df, "CapEx") = [i \in 1..Len(last.result.df) |-> 0]

----------------------------------------------------------------------------
(* Windows *)

\* the columns of a stored row
Base(r) == [f \in {"label", "OCF", "CapEx", "Liabilities", "PPE", "Goodwill", "CA"} |-> r[f]]

\* C13: the window of a selection (start, end) is the inclusive contiguous
\* slice of the periods from start to end, oldest first; "TTM" is an end only
\* when a TTM row is stored, and then the window is every annual period from
\* start onward followed by the TTM row as its last row.
C13_InclusiveSlice ==
    view.kind # "none" =>
        LET periods == IF view.end = TTM THEN Frame ELSE raw_df
            win == SelectSeq(periods, LAMBDA r : view.start <= r.label /\ r.label <= view.end)
            shown == [i \in 1..Len(view.rows) |-> Base(view.rows[i])]
        IN  /\ shown = win
            /\ shown # <<>>
            /\ shown[1].label = view.start
            /\ shown[Len(shown)].label = view.end
            /\ view.end = TTM =>
                  /\ ttm_df # <<>>
                  /\ shown = SelectSeq(raw_df, LAMBDA r : r.label >= view.start) \o ttm_df

\* an explicit window that leaves out the oldest stored period
C13_Witness ==
    /\ view.kind = "metrics"
    /\ Len(raw_df) = 3
    /\ view.start = raw_df[2].label
    /\ view.end = raw_df[3].label

\* C14: the window shown when a load creates the two selectboxes is the last
\* DefaultSpan + 1 = 11 of the available periods (the annual periods, then TTM
\* when stored), or all of them when there are fewer; whatever the number of
\* annual periods, with or without TTM, the default start index is an index of
\* the annual periods and the run renders.
C14_DefaultWindow ==
    /\ data_loaded =>
          /\ Len(raw_df) >= 1
          /\ default_start_idx(raw_df, ttm_df) \in 0..(Len(raw_df) - 1)
    /\ (last.load /\ last.fresh /\ data_loaded) =>
          LET k == Min2(DefaultSpan + 1, Len(Frame))
          IN  /\ view.kind # "none"
              /\ [i \in 1..Len(view.rows) |-> Base(view.rows[i])]
                   = SubSeq(Frame, Len(Frame) - k + 1, Len(Frame))

\* a history longer than the default window, with a TTM row: 11 periods shown
C14_Witness ==
    /\ last.load /\ last.fresh /\ data_loaded
    /\ ttm_df # <<>>
    /\ Len(raw_df) > DefaultSpan + 1
    /\ Len(view.rows) = DefaultSpan + 1

----------------------------------------------------------------------------
(* The session *)

\* C15 (refuted): a Load whose fetch or whose normalization fails renders
\* nothing below the error in that run: no window, no metric, no label, and
\* in particular not the analysis of a company loaded by an earlier run.
C15_FailedLoadRendersNothing ==
    (last.load /\ last.shown # "") => view.kind = "none"

\* C15, what the code keeps: a failed fetch renders nothing; a failed
\* normalization renders nothing only if nothing was loaded before, otherwise
\* the run goes on with the frames an earlier load stored.
C15_FailedFetchRendersNothing ==
    /\ (last.load /\ last.error # "") => view.kind = "none"
    /\ (last.load /\ last.error = "" /\ ~last.result.ok) =>
          /\ view.kind = "none" <=> ~data_loaded
          /\ data_loaded => last.result.df # raw_df

----------------------------------------------------------------------------
(* Nulls *)

\* no name of the alias list is a field of the dict
Absent(d, keys) == \A i \in 1..Len(keys) : keys[i] \notin DOMAIN d

\* C16 (refuted): in every row normalization produces, annual or TTM, CapEx
\* and current liabilities are numbers, and they are 0 in every row when the
\* series is absent.
C16_OptionalInputsAreNumbers ==
    (Normalized /\ last.result.ok) =>
        LET rows == last.result.df \o last.result.ttm
        IN  /\ \A i \in 1..Len(rows) : rows[i].CapEx # NA /\ rows[i].Liabilities # NA
            /\ Absent(last.raw.financials.annual, CapexKeys) =>
                  \A i \in 1..Len(last.result.df) : last.result.df[i].CapEx = 0
            /\ Absent(last.raw.financials.annual, LiabKeys) =>
                  \A i \in 1..Len(last.result.df) : last.result.df[i].Liabilities = 0
            /\ (last.result.ttm # <<>> /\ Absent(last.raw.financials.quarterly, CapexKeys)) =>
                  last.result.ttm[1].CapEx = 0
            /\ (last.result.ttm # <<>> /\ Absent(last.raw.financials.quarterly, LiabKeys)) =>
                  last.result.ttm[1].Liabilities = 0

\* C16, what the code keeps: the annual rows and the TTM CapEx are numbers;
\* the TTM liabilities (and current assets) are the latest quarter's entry as
\* it is, null included, while a null PPE or goodwill becomes 0.
C16_TtmStocksAsReported ==
    (Normalized /\ last.result.ok) =>
        /\ \A i \in 1..Len(last.result.df) :
              last.result.df[i].CapEx # NA /\ last.result.df[i].Liabilities # NA
        /\ last.result.ttm # <<>> =>
              LET t == last.result.ttm[1]
                  latest(f) == InQuarterly(f)[Len(InQuarterly(f))]
              IN  /\ t.CapEx # NA
                  /\ InQuarterly("total_current_liabilities") # <<>> =>
                        t.Liabilities = latest("total_current_liabilities")
                  /\ InQuarterly("total_current_assets") # <<>> =>
                        t.CA = latest("total_current_assets")
                  /\ t.PPE # NA /\ t.Goodwill # NA

\* C17 (refuted): no stored annual row has a null operating cash flow: the
\* rows whose OCF is null were dropped after truncation.
C17_NullOcfRowsDropped ==
    data_loaded => \A i \in 1..Len(raw_df) : raw_df[i].OCF # NA

\* C17, what the code keeps: one stored row per truncated period, the OCF
\* entry as it is, null included.
C17_NullOcfRowsKept ==
    (Normalized /\ last.result.ok /\ AlignedAnnual) =>
        Column(last.result.df, "OCF") = InAnnual("cf_cfo")

----------------------------------------------------------------------------
(* Cache and session state *)

\* a step that is a run of the load block
LoadStep == last'.load /\ now' = now /\ vars' # vars

\* the age, in expiry periods, of the cache entry of a ticker
Age(ticker) == now - cache[ticker][1].at

\* C18 (refuted): an entry of the fetch cache is never modified; a Load of a
\* ticker whose entry is younger than one expiry period is answered from the
\* cache with no network call; a Load of a ticker whose entry is one expiry
\* period old or older fetches anew.
C18_CacheExpires ==
    [][/\ \A t \in Tickers :
            (cache[t] # <<>> /\ cache'[t] # <<>>) =>
                cache'[t][1].value = cache[t][1].value
       /\ LoadStep =>
            LET t == last'.ticker
            IN  /\ (cache[t] # <<>> /\ Age(t) < 1) => ~last'.network
                /\ (cache[t] # <<>> /\ Age(t) >= 1) => last'.network
      ]_vars

\* C18, what the code keeps: the decorator has no ttl, so an entry is stored
\* by the first Load of its ticker, error or not, is never modified and never
\* expires: every later Load of the ticker is answered from it.
C18_CacheNeverExpires ==
    [][/\ \A t \in Tickers : cache[t] # <<>> => cache'[t] = cache[t]
       /\ LoadStep =>
            LET t == last'.ticker
            IN  /\ last'.network <=> cache[t] = <<>>
                /\ cache'[t] # <<>>
                /\ last'.raw = cache'[t][1].value.raw
                /\ last'.error = cache'[t][1].value.error
      ]_vars

\* C19: the stored annual rows and TTM row are immutable: no run adds an FCF
\* or IC column to them or alters a value; whatever the sequence of start/end
\* selections, they change only in a run whose Load succeeded, and then they
\* are what normalization returned.
C19_StoredImmutable ==
    [][/\ \A i \in 1..Len(raw_df' \o ttm_df') :
            (raw_df' \o ttm_df')[i] = Base((raw_df' \o ttm_df')[i])
       /\ (raw_df' # raw_df \/ ttm_df' # ttm_df) =>
            /\ LoadStep
            /\ last'.result.ok
            /\ raw_df' = last'.result.df
            /\ ttm_df' = last'.result.ttm
      ]_vars

\* a selection made after the load has computed FCF, IC and the metrics on a
\* window of stored annual rows
C19_Witness ==
    /\ data_loaded
    /\ ~last.load
    /\ view.kind = "metrics"
    /\ view.end # TTM
    /\ \A i \in 1..Len(view.rows) : view.rows[i].FCF # NA /\ view.rows[i].IC # NA

\* C20: whenever data_loaded is True the stored annual rows are a table and
\* the stored annual rows, TTM row and metadata are the three values one
\* successful Load wrote (what normalization made of one fetched document, and
\* that document's metadata); a Load whose fetch fails sets data_loaded to
\* False and leaves the three stored values as they were.
C20_OneLoadWroteAll ==
    [][/\ data_loaded' =>
            /\ raw_df' # <<>>
            /\ \E t \in Tickers :
                  /\ cache'[t] # <<>>
                  /\ cache'[t][1].value.error = ""
                  /\ LET document == cache'[t][1].value.raw
                         made == process_financials(document)
                     IN  /\ made.ok
                         /\ raw_df' = made.df
                         /\ ttm_df' = made.ttm
                         /\ meta' = document.metadata
       /\ (LoadStep /\ last'.error # "") =>
            /\ ~data_loaded'
            /\ UNCHANGED <<raw_df, ttm_df, meta>>
      ]_vars

\* a fetch failed after another company was loaded: its stored values remain
C20_Witness ==
    /\ last.load
    /\ last.error # ""
    /\ ~data_loaded
    /\ raw_df # <<>>
    /\ meta # "" /\ meta # last.ticker

====
